---- MODULE Spec2Model ----
(***************************************************************************)
(* Kitchen planner (kitchen_app.py): the form submission builds a CP-SAT   *)
(* model over boolean variables shifts[(w, r)][t], is_off[w][d],           *)
(* start_{w}_{d}_{h} and 2off_{w}_{d}, solves it and decodes the solution  *)
(* into a weekly schedule and a per-employee summary.                      *)
(*                                                                         *)
(* A set of boolean variables is modelled by the set of places where the   *)
(* variable is 1: shifts[w][r] is the set of slots t with                  *)
(* shifts[(w, r)][t] = 1, start[w] the set of slots t = idx(d, h) with     *)
(* start_{w}_{d}_{h} = 1.  The solve service is modelled as a search that  *)
(* fixes the variables one day at a time, never in a way that no           *)
(* assignment of the remaining days can complete, and may return any       *)
(* assignment that satisfies every constraint the model builder added.     *)
(***************************************************************************)
EXTENDS Integers, Sequences, FiniteSets, TLC

\* ───────────── fixed parameters (kitchen_app.py lines 6-13) ─────────────
DAYS == 7
HOURS_PER_DAY == 14
START_HOUR == 10
ROLES == <<"Cuisinier", "Pizzaiolo", "Plongeur">>
day_names == [d \in 0..6 |-> <<"Monday", "Tuesday", "Wednesday", "Thursday",
                               "Friday", "Saturday", "Sunday">>[d + 1]]
hour_labels == [h \in 0..(HOURS_PER_DAY - 1) |-> (START_HOUR + h) % 24]

\* bounds of the explored inputs
MaxWorkers == 2
MaxNeed == 2

Days == 0..(DAYS - 1)
Hours == 0..(HOURS_PER_DAY - 1)
RoleSet == {ROLES[i] : i \in 1..Len(ROLES)}

VARIABLES kitchen_df,   \* st.session_state.kitchen_df: the edited roster
          role_needs,   \* st.session_state.role_needs[r][day name][h]
          df_emp,       \* kitchen_df.fillna(False)
          pc,           \* "submitted", "solving", "solved", "done"
          day,          \* number of days whose variables the search has fixed
          shifts,       \* shifts[w][r]: slots t where worker w performs role r
          start,        \* start[w]: slots that begin a work block
          is_off,       \* is_off[w]: one boolean per fixed day (day d at d + 1)
          total_hours,  \* total_hours[w] over the fixed days
          status,       \* solver status, "NONE" before Solve returns
          message,      \* "", "error" (st.error) or "success" (st.success)
          planning,     \* rows of the weekly schedule
          summary       \* rows of the per-employee summary

vars == <<kitchen_df, role_needs, df_emp, pc, day, shifts, start, is_off,
          total_hours, status, message, planning, summary>>

\* ───────────── data frame cells ─────────────
\* A cell holds an integer, a boolean (v = 1 for True, 0 for False), a string
\* or NaN.
IntCell(n) == [tag |-> "int", v |-> n]
StrCell(s) == [tag |-> "str", v |-> s]
BoolCell(b) == [tag |-> "bool", v |-> IF b THEN 1 ELSE 0]
NaN == [tag |-> "nan", v |-> 0]

\* DataFrame.fillna(False): every missing cell, of every column, becomes False
fillna(df) ==
    [w \in DOMAIN df |->
        [c \in DOMAIN df[w] |->
            IF df[w][c].tag = "nan" THEN BoolCell(FALSE) ELSE df[w][c]]]

\* int(x) and bool(x) of a filled cell: int(False) = 0, int(True) = 1
int(cell) == cell.v
bool(cell) == cell.v # 0

\* ───────────── the explored inputs ─────────────
Row(nom, cu, pi, pl, hm, cm) ==
    [c \in {"Nom", "Cuisinier", "Pizzaiolo", "Plongeur", "Heures Max",
            "Coupures Max"} |->
        CASE c = "Nom" -> nom
          [] c = "Cuisinier" -> cu
          [] c = "Pizzaiolo" -> pi
          [] c = "Plongeur" -> pl
          [] c = "Heures Max" -> hm
          [] OTHER -> cm]

Nom(i) == StrCell(<<"Emp1", "Emp2", "Emp3", "Emp4">>[i + 1])

\* the row the form creates for employee i
DefaultRow(i) ==
    Row(Nom(i), BoolCell(TRUE), BoolCell(TRUE), BoolCell(TRUE), IntCell(42), IntCell(3))

\* edits of the first row; "missing" is a row of the dynamic editor whose
\* name, Pizzaiolo and Heures Max cells were left empty
Profiles == {"default", "low_hours", "no_breaks", "one_break", "missing"}
EditedRow(prof) ==
    CASE prof = "low_hours" ->
            Row(Nom(0), BoolCell(TRUE), BoolCell(TRUE), BoolCell(TRUE), IntCell(5), IntCell(3))
      [] prof = "no_breaks" ->
            Row(Nom(0), BoolCell(TRUE), BoolCell(TRUE), BoolCell(TRUE), IntCell(42), IntCell(0))
      [] prof = "one_break" ->
            Row(Nom(0), BoolCell(TRUE), BoolCell(FALSE), BoolCell(TRUE), IntCell(42), IntCell(1))
      [] prof = "missing" ->
            Row(NaN, BoolCell(TRUE), NaN, BoolCell(TRUE), NaN, IntCell(3))
      [] OTHER -> DefaultRow(0)

Roster(n, prof) == [w \in 0..(n - 1) |-> IF w = 0 THEN EditedRow(prof) ELSE DefaultRow(w)]
Rosters == {Roster(n, "default") : n \in 1..MaxWorkers}
               \cup {Roster(2, prof) : prof \in Profiles}

\* n Cuisinier at the hours of win and 1 Pizzaiolo at the hours of win2, on
\* the days of ds; 0 elsewhere
Needs(win, n, win2, ds) ==
    [r \in RoleSet |->
        [dn \in {day_names[d] : d \in Days} |->
            [h \in Hours |->
                IF \E d \in ds : day_names[d] = dn
                THEN CASE r = "Cuisinier" /\ h \in win -> n
                       [] r = "Pizzaiolo" /\ h \in win2 -> 1
                       [] OTHER -> 0
                ELSE 0]]]

ThreeBlocks == (0..2) \cup (5..7) \cup (10..12)
BlockWindows == {0..2, (0..2) \cup (5..7), ThreeBlocks}
Windows == BlockWindows \cup {0..1, (0..2) \cup (5..6), 0..10, 11..13, 12..13}
Windows2 == {{}, 3..5, 8..10}
NeedMatrices ==
    {Needs(win, 1, win2, {0}) : win \in BlockWindows, win2 \in Windows2}
    \cup {Needs(win, 1, {}, {0}) : win \in Windows}
    \cup {Needs(win, n, {}, {0}) : win \in {0..2, ThreeBlocks},
                                   n \in (-1..MaxNeed) \ {0, 1}}
    \cup {Needs(0..2, n, {}, ds) : n \in 1..MaxNeed, ds \in {{1, 3, 5}, Days}}

\* Scenario A of the specification: 2 workers as the form creates them, 1
\* Cuisinier at every hour of the first nd days
ScenarioRoster == [w \in 0..1 |-> DefaultRow(w)]
ScenarioNeeds(nd) == Needs(Hours, 1, {}, 0..(nd - 1))
ScenarioMatrices == {ScenarioNeeds(nd) : nd \in {1, DAYS}}

W == Cardinality(DOMAIN df_emp)
Workers == DOMAIN df_emp
DayNames == {day_names[d] : d \in Days}
SLOTS == DAYS * HOURS_PER_DAY
idx(d, h) == d * HOURS_PER_DAY + h

\* value of the boolean variable shifts[(w, r)][t] in the assignment sh
Val(sh, w, r, t) == IF t \in sh[w][r] THEN 1 ELSE 0

\* sum(shifts[(w, r)][t] for r in ROLES)
curr(sh, w, t) == Cardinality({r \in RoleSet : t \in sh[w][r]})

\* sum(shifts[(w, r)][idx(d, h)] for r in ROLES for h in range(HOURS_PER_DAY))
DaySlots(d) == idx(d, 0)..idx(d, HOURS_PER_DAY - 1)
total_day(sh, w, d) ==
    Cardinality(UNION {{<<r, t>> : t \in sh[w][r] \cap DaySlots(d)} : r \in RoleSet})

max_coup(df, w) == int(df[w]["Coupures Max"])

\* ───────────── the constraints of the model ─────────────
\* is_off linkage: total_day == 0 if off, total_day >= 3 if not off
OffLink(sh, off, w, d) ==
    /\ off => total_day(sh, w, d) = 0
    /\ ~off => total_day(sh, w, d) >= 3

\* at most one role per hour
SingleRole(sh, w, t) == curr(sh, w, t) <= 1

\* no switch from r1 at hour h to r2 at hour h + 1 (h in range(HOURS_PER_DAY - 1))
RoleChange(sh, w, d, h) ==
    \A r1 \in RoleSet : \A r2 \in RoleSet :
        r1 # r2 => Val(sh, w, r1, idx(d, h)) + Val(sh, w, r2, idx(d, h + 1)) <= 1

\* max 10 hours per day
DailyCap(sh, w, d) == total_day(sh, w, d) <= 10

\* reified block start
StartLink(sh, st, w, d, h) ==
    LET t == idx(d, h)
        s == t \in st[w]
    IN  IF h = 0
        THEN /\ s => curr(sh, w, t) = 1
             /\ ~s => curr(sh, w, t) # 1
        ELSE LET prev == curr(sh, w, idx(d, h - 1))
             IN  /\ s => curr(sh, w, t) - prev = 1
                 /\ ~s => curr(sh, w, t) - prev # 1

\* a started block is at least 3 hours long; no start in the last two hours
MinBlockTwo(sh, st, w, d, h) ==
    LET s == idx(d, h) \in st[w]
    IN  IF h <= HOURS_PER_DAY - 3
        THEN s => Cardinality({p \in RoleSet \X (h..(h + 1)) :
                                  idx(d, p[2]) \in sh[w][p[1]]}) >= 2
        ELSE ~s
MinBlock(sh, st, w, d, h) ==
    LET s == idx(d, h) \in st[w]
    IN  IF h <= HOURS_PER_DAY - 3
        THEN s => Cardinality({p \in RoleSet \X (h..(h + 2)) :
                                  idx(d, p[2]) \in sh[w][p[1]]}) >= 3
        ELSE ~s

\* sum(starts) <= max_coup + 1
StartsBoundLoose(df, st, w, d) ==
    Cardinality(st[w] \cap DaySlots(d)) <= max_coup(df, w) + 2
StartsBound(df, st, w, d) ==
    Cardinality(st[w] \cap DaySlots(d)) <= max_coup(df, w) + 1

\* at least one block of two consecutive days off; off is is_off[w], day d at
\* d + 1.  The two implications fix 2off_{w}_{d} to is_off[w][d] and
\* is_off[w][d + 1], so the sum counts the days d where both are true.
TwoOffNone(off) == TRUE
TwoOff(off) ==
    LET cons == {d \in 0..(DAYS - 2) : off[d + 1] /\ off[d + 2]}
    IN  Cardinality(cons) >= 1

\* weekly maximum hours
WeeklyCapDefault(df, total, w) == total <= 42
WeeklyCap(df, total, w) == total <= int(df[w]["Heures Max"])

\* required skill
Skill(df, sh, w, r, t) == (~bool(df[w][r])) => Val(sh, w, r, t) = 0

\* hourly staffing requirement
CoverageShifted(needs, sh, r, d, h) ==
    Cardinality({w \in DOMAIN sh : idx(d, h) \in sh[w][r]})
        = needs[r][day_names[d]][IF h = 0 THEN 0 ELSE h - 1]
CoverageOpening(needs, sh, r, d, h) ==
    Cardinality({w \in DOMAIN sh : idx(d, h) \in sh[w][r]})
        = (IF h < 3 THEN needs[r][day_names[d]][h] ELSE 0)
Coverage(needs, sh, r, d, h) ==
    LET req == needs[r][day_names[d]][h]
        assigned == Cardinality({w \in DOMAIN sh : idx(d, h) \in sh[w][r]})
    IN  assigned = req

\* every constraint whose variables all belong to day d
DayConstraints(df, needs, sh, st, off, d) ==
    /\ \A w \in DOMAIN df : OffLink(sh, off[w], w, d)
    /\ \A w \in DOMAIN df :
          /\ \A h \in Hours : SingleRole(sh, w, idx(d, h))
          /\ \A h \in 0..(HOURS_PER_DAY - 2) : RoleChange(sh, w, d, h)
          /\ DailyCap(sh, w, d)
          /\ \A h \in Hours : StartLink(sh, st, w, d, h) /\ MinBlock(sh, st, w, d, h)
          /\ StartsBound(df, st, w, d)
          /\ \A r \in RoleSet : \A h \in Hours : Skill(df, sh, w, r, idx(d, h))
    /\ \A r \in RoleSet : \A h \in Hours : Coverage(needs, sh, r, d, h)

\* ───────────── the solve service: search over one day ─────────────
\* p with the shifts variables of worker w at slot t fixed: 1 for the roles in R
AssignRoles(p, w, t, R) ==
    [p EXCEPT !.shifts[w] = [r \in RoleSet |-> IF r \in R THEN @[r] \cup {t} ELSE @[r]]]

\* p with the start variable of worker w at slot t fixed to s
AssignStart(p, w, t, s) ==
    [p EXCEPT !.start[w] = IF s THEN @ \cup {t} ELSE @]

\* the constraints over worker w alone that the variables fixed up to hour h
\* of day d decide (a sum that can only grow is checked as soon as it grows):
\* first those over shifts alone, then those that read start
DecidedShifts(df, p, w, d, h) ==
    /\ SingleRole(p.shifts, w, idx(d, h))
    /\ \A r \in RoleSet : Skill(df, p.shifts, w, r, idx(d, h))
    /\ h > 0 => RoleChange(p.shifts, w, d, h - 1)
    /\ DailyCap(p.shifts, w, d)

DecidedStart(df, p, w, d, h) ==
    /\ StartLink(p.shifts, p.start, w, d, h)
    /\ h >= 2 => MinBlock(p.shifts, p.start, w, d, h - 2)
    /\ h > HOURS_PER_DAY - 3 => MinBlock(p.shifts, p.start, w, d, h)
    /\ StartsBound(df, p.start, w, d)

RECURSIVE ExtendWorkers(_, _, _, _, _)
ExtendWorkers(df, P, ws, d, h) ==
    IF ws = {} THEN P
    ELSE LET w == CHOOSE x \in ws : TRUE
             Q1 == {q \in {AssignRoles(p, w, idx(d, h), R) : p \in P, R \in SUBSET RoleSet} :
                       DecidedShifts(df, q, w, d, h)}
             Q2 == {q \in {AssignStart(p, w, idx(d, h), s) : p \in Q1, s \in BOOLEAN} :
                       DecidedStart(df, q, w, d, h)}
         IN  IF Q2 = {} THEN {} ELSE ExtendWorkers(df, Q2, ws \ {w}, d, h)

\* P: the assignments of hours 0..h-1 of day d that no decided constraint
\* rejects; the result: those of the whole day
RECURSIVE DayPrefixes(_, _, _, _, _)
DayPrefixes(df, needs, d, h, P) ==
    IF h = HOURS_PER_DAY THEN P
    ELSE LET Q == {q \in ExtendWorkers(df, P, DOMAIN df, d, h) :
                      \A r \in RoleSet : Coverage(needs, q.shifts, r, d, h)}
         IN  IF Q = {} THEN {} ELSE DayPrefixes(df, needs, d, h + 1, Q)

NoneFixed(df) ==
    [shifts |-> [w \in DOMAIN df |-> [r \in RoleSet |-> {}]],
     start |-> [w \in DOMAIN df |-> {}]]

\* every assignment of the variables of day d that satisfies DayConstraints
DayConfigsOf(df, needs, d) ==
    {c \in {[shifts |-> p.shifts, start |-> p.start, off |-> off] :
               p \in DayPrefixes(df, needs, d, 0, {NoneFixed(df)}),
               off \in [DOMAIN df -> BOOLEAN]} :
        DayConstraints(df, needs, c.shifts, c.start, c.off, d)}

\* The constraints of a day read d only through idx(d, h) and the row of
\* role_needs of that day, so the assignments of a day are those of day 0
\* under the same row, moved to the slots of day d.  They are tabulated over
\* the explored rosters and rows.
NeedsRow(needs, d) == [r \in RoleSet |-> needs[r][day_names[d]]]
EveryDay(row) == [r \in RoleSet |-> [dn \in DayNames |-> row[r]]]
DayKeys ==
    {<<fillna(df), NeedsRow(nm, d)>> : df \in Rosters, nm \in NeedMatrices, d \in Days}
    \cup {<<fillna(ScenarioRoster), NeedsRow(nm, d)>> : nm \in ScenarioMatrices, d \in Days}
DayTable == [k \in DayKeys |-> DayConfigsOf(k[1], EveryDay(k[2]), 0)]

Shifted(c, d) ==
    [shifts |-> [w \in DOMAIN c.shifts |-> [r \in RoleSet |->
                    {t + d * HOURS_PER_DAY : t \in c.shifts[w][r]}]],
     start |-> [w \in DOMAIN c.start |-> {t + d * HOURS_PER_DAY : t \in c.start[w]}],
     off |-> c.off]

DayConfigs(d) ==
    {Shifted(c, d) : c \in DayTable[<<df_emp, NeedsRow(role_needs, d)>>]}

\* ───────────── satisfiability of the whole model ─────────────
\* what the constraints over the week read of a day: is_off and the hours
DaySummaries(d) ==
    {[off |-> c.off, hrs |-> [w \in Workers |-> total_day(c.shifts, w, d)]] :
        c \in DayConfigs(d)}

\* the summaries of days a..b-1 together that the weekly caps allow
RECURSIVE WeekFrontier(_, _)
WeekFrontier(a, b) ==
    IF b <= a
    THEN {[off |-> [w \in Workers |-> <<>>], hrs |-> [w \in Workers |-> 0]]}
    ELSE {n \in {[off |-> [w \in Workers |-> Append(s.off[w], x.off[w])],
                  hrs |-> [w \in Workers |-> s.hrs[w] + x.hrs[w]]] :
                    s \in WeekFrontier(a, b - 1), x \in DaySummaries(b - 1)} :
             \A w \in Workers : WeeklyCap(df_emp, n.hrs[w], w)}

\* every constraint that reads the variables of more than one day
WeekConstraints(off, hrs) ==
    \A w \in Workers : TwoOff(off[w]) /\ WeeklyCap(df_emp, hrs[w], w)

\* some assignment of days d..DAYS-1 completes the days fixed so far, whose
\* is_off values are off and whose hours are hrs
Completable(off, hrs, d) ==
    \E s \in WeekFrontier(d, DAYS) :
        WeekConstraints([w \in Workers |-> off[w] \o s.off[w]],
                        [w \in Workers |-> hrs[w] + s.hrs[w]])

Feasible == Completable([w \in Workers |-> <<>>], [w \in Workers |-> 0], 0)

\* ───────────── the solution decoder ─────────────
\* the last role of ROLES whose variable is 1 at (d, h), "" when none is
role_here(sh, w, d, h) ==
    LET on == {i \in 1..Len(ROLES) : idx(d, h) \in sh[w][ROLES[i]]}
    IN  IF on = {} THEN ""
        ELSE ROLES[CHOOSE i \in on : \A j \in on : j <= i]

work_hours(sh, w, d) == {h \in Hours : role_here(sh, w, d, h) # ""}

Min(S) == CHOOSE x \in S : \A y \in S : x <= y
Max(S) == CHOOSE x \in S : \A y \in S : y <= x

\* the summary statistics after day d, from those after day d - 1
DecodeDay(acc, sh, w, d) ==
    LET wh == work_hours(sh, w, d)
    IN  IF wh # {}
        THEN [acc EXCEPT !.days_worked = @ + 1,
                         !.total_h = @ + Cardinality(wh),
                         !.coup = IF Cardinality(wh) < Max(wh) - Min(wh) + 1
                                  THEN @ + 1 ELSE @,
                         !.curr_off = 0]
        ELSE [acc EXCEPT !.curr_off = @ + 1,
                         !.max_off_streak =
                             IF acc.curr_off + 1 > @ THEN acc.curr_off + 1 ELSE @]

RECURSIVE DecodeDays(_, _, _)
DecodeDays(sh, w, n) ==
    IF n = 0
    THEN [total_h |-> 0, days_worked |-> 0, coup |-> 0, max_off_streak |-> 0,
          curr_off |-> 0]
    ELSE DecodeDay(DecodeDays(sh, w, n - 1), sh, w, n - 1)

\* round(total_h / days_worked, 2) in hundredths (no ratio of these ranges
\* falls on a tie), 0 if the worker never worked
avg_h(total_h, days_worked) ==
    IF days_worked # 0
    THEN (200 * total_h + days_worked) \div (2 * days_worked)
    ELSE 0

SummaryRow(sh, w) ==
    LET acc == DecodeDays(sh, w, DAYS)
    IN  [Employe |-> df_emp[w]["Nom"],
         total_h |-> acc.total_h,
         days_worked |-> acc.days_worked,
         coup |-> acc.coup,
         max_off_streak |-> acc.max_off_streak,
         avg_h |-> avg_h(acc.total_h, acc.days_worked)]

PlanningRow(sh, w, d) ==
    [Employe |-> df_emp[w]["Nom"], Jour |-> day_names[d],
     cells |-> [h \in Hours |-> role_here(sh, w, d, h)]]

\* planning: one row per (w, d), worker by worker; summary: one row per worker
Planning(sh) ==
    [i \in 1..(W * DAYS) |-> PlanningRow(sh, (i - 1) \div DAYS, (i - 1) % DAYS)]
Summary(sh) == [i \in 1..W |-> SummaryRow(sh, i - 1)]

StatusOptimalOnly(s) == s = "OPTIMAL"
StatusOK(s) == s \in {"OPTIMAL", "FEASIBLE"}

\* ───────────── the run of the script ─────────────
Init ==
    /\ \/ kitchen_df \in Rosters /\ role_needs \in NeedMatrices
       \/ kitchen_df = ScenarioRoster /\ role_needs \in ScenarioMatrices
    /\ df_emp = <<>>
    /\ pc = "submitted"
    /\ day = 0
    /\ shifts = <<>>
    /\ start = <<>>
    /\ is_off = <<>>
    /\ total_hours = <<>>
    /\ status = "NONE"
    /\ message = ""
    /\ planning = <<>>
    /\ summary = <<>>

\* if submitted: fillna, model = CpModel(), the variables
BuildModel ==
    /\ pc = "submitted"
    /\ df_emp' = fillna(kitchen_df)
    /\ shifts' = [w \in DOMAIN kitchen_df |-> [r \in RoleSet |-> {}]]
    /\ start' = [w \in DOMAIN kitchen_df |-> {}]
    /\ is_off' = [w \in DOMAIN kitchen_df |-> <<>>]
    /\ total_hours' = [w \in DOMAIN kitchen_df |-> 0]
    /\ pc' = "solving"
    /\ UNCHANGED <<kitchen_df, role_needs, day, status, message, planning, summary>>

\* the search fixes the variables of the next day
SolveDay ==
    /\ pc = "solving"
    /\ day < DAYS
    /\ \E c \in {x \in DayConfigs(day) :
                    Completable([w \in Workers |-> Append(is_off[w], x.off[w])],
                                [w \in Workers |->
                                    total_hours[w] + total_day(x.shifts, w, day)],
                                day + 1)} :
          /\ shifts' = [w \in Workers |-> [r \in RoleSet |->
                           shifts[w][r] \cup c.shifts[w][r]]]
          /\ start' = [w \in Workers |-> start[w] \cup c.start[w]]
          /\ is_off' = [w \in Workers |-> Append(is_off[w], c.off[w])]
          /\ total_hours' = [w \in Workers |->
                                total_hours[w] + total_day(c.shifts, w, day)]
    /\ day' = day + 1
    /\ UNCHANGED <<kitchen_df, role_needs, df_emp, pc, status, message, planning,
                   summary>>

\* Solve returns an assignment that satisfies every constraint
SolveFound ==
    /\ pc = "solving"
    /\ day = DAYS
    /\ WeekConstraints(is_off, total_hours)
    /\ status' \in {"OPTIMAL", "FEASIBLE"}
    /\ pc' = "solved"
    /\ UNCHANGED <<kitchen_df, role_needs, df_emp, day, shifts, start, is_off,
                   total_hours, message, planning, summary>>

\* max_time_in_seconds expires before an assignment is found
SolveTimeout ==
    /\ pc = "solving"
    /\ status' = "UNKNOWN"
    /\ pc' = "solved"
    /\ UNCHANGED <<kitchen_df, role_needs, df_emp, day, shifts, start, is_off,
                   total_hours, message, planning, summary>>

\* Solve proves that no assignment satisfies the constraints
SolveInfeasible ==
    /\ pc = "solving"
    /\ day = 0
    /\ ~Feasible
    /\ status' = "INFEASIBLE"
    /\ pc' = "solved"
    /\ UNCHANGED <<kitchen_df, role_needs, df_emp, day, shifts, start, is_off,
                   total_hours, message, planning, summary>>

\* Display Results
Display ==
    /\ pc = "solved"
    /\ IF ~StatusOK(status)
       THEN /\ message' = "error"
            /\ UNCHANGED <<planning, summary>>
       ELSE /\ message' = "success"
            /\ planning' = Planning(shifts)
            /\ summary' = Summary(shifts)
    /\ pc' = "done"
    /\ UNCHANGED <<kitchen_df, role_needs, df_emp, day, shifts, start, is_off,
                   total_hours, status>>

Next == BuildModel \/ SolveDay \/ SolveFound \/ SolveTimeout \/ SolveInfeasible
           \/ Display

Spec == Init /\ [][Next]_vars

\* ───────────── properties ─────────────
\* An accepted solution: Solve has returned OPTIMAL or FEASIBLE, and shifts,
\* start and is_off hold the values of the variables.
Accepted == status \in {"OPTIMAL", "FEASIBLE"}

RolesAt(w, t) == {r \in RoleSet : t \in shifts[w][r]}
Worked(w, d) == {h \in Hours : RolesAt(w, idx(d, h)) # {}}

\* the maximal runs <<first hour, last hour>> of consecutive worked hours
Runs(w, d) ==
    LET wk == Worked(w, d)
        first == {h \in wk : (h - 1) \notin wk}
        last == {h \in wk : (h + 1) \notin wk}
    IN  {b \in first \X last : b[1] <= b[2] /\ \A h \in b[1]..b[2] : h \in wk}

\* the number of true (role, slot) assignment variables of worker w
TrueVars(w) == Cardinality(UNION {{<<r, t>> : t \in shifts[w][r]} : r \in RoleSet})

\* the breaks of worker w over days 0..n-1: blocks minus one on each worked day
RECURSIVE Breaks(_, _)
Breaks(w, n) ==
    IF n = 0 THEN 0
    ELSE Breaks(w, n - 1)
            + (IF Worked(w, n - 1) # {} THEN Cardinality(Runs(w, n - 1)) - 1 ELSE 0)

\* a negative requirement, or a worker row without Heures Max or Coupures Max
Malformed ==
    \/ \E r \in RoleSet : \E dn \in DayNames : \E h \in Hours : role_needs[r][dn][h] < 0
    \/ \E w \in DOMAIN kitchen_df :
          \/ kitchen_df[w]["Heures Max"].tag = "nan"
          \/ kitchen_df[w]["Coupures Max"].tag = "nan"

IsScenarioA == kitchen_df = ScenarioRoster /\ role_needs = ScenarioNeeds(DAYS)

\* C1: in every accepted solution all the hours a worker works in one day
\* carry the same role, also across a break.
C1_OneRolePerDay ==
    Accepted =>
        \A w \in Workers : \A d \in Days :
            LET wk == Worked(w, d)
            IN  \A h1 \in wk : \A h2 \in wk :
                    RolesAt(w, idx(d, h1)) = RolesAt(w, idx(d, h2))

\* C2: in every accepted solution the number of workers assigned a role at a
\* slot equals role_needs[role][day][hour] exactly.
C2_CoverageExact ==
    Accepted =>
        \A r \in RoleSet : \A d \in Days : \A h \in Hours :
            Cardinality({w \in Workers : idx(d, h) \in shifts[w][r]})
                = role_needs[r][day_names[d]][h]

C2_Witness ==
    /\ Accepted
    /\ \E d \in Days : \E h \in Hours :
          /\ role_needs["Cuisinier"][day_names[d]][h] = 2
          /\ Cardinality({w \in Workers : idx(d, h) \in shifts[w]["Cuisinier"]}) = 2

\* C3 as stated: Scenario A admits a satisfying assignment, so that the
\* solver never proves it infeasible.
C3_ScenarioAFeasible == IsScenarioA => status # "INFEASIBLE"

\* C3, amended: Scenario A admits no satisfying assignment; the search never
\* completes an assignment that satisfies the constraints, Solve never
\* returns OPTIMAL or FEASIBLE and no schedule is decoded.
C3_ScenarioAInfeasible ==
    IsScenarioA =>
        /\ ~Accepted
        /\ ~(pc = "solving" /\ day = DAYS /\ WeekConstraints(is_off, total_hours))
        /\ planning = <<>> /\ summary = <<>>

C3_Witness == IsScenarioA /\ status = "INFEASIBLE" /\ pc = "done" /\ message = "error"

\* C4: a schedule and a summary are produced exactly when the status is
\* OPTIMAL or FEASIBLE; any other status gives the failure message alone, and
\* no table exists before the results are displayed.
C4_DecodeIffSuccess ==
    IF pc = "done"
    THEN IF status \in {"OPTIMAL", "FEASIBLE"}
         THEN message = "success" /\ Len(planning) = W * DAYS /\ Len(summary) = W
         ELSE message = "error" /\ planning = <<>> /\ summary = <<>>
    ELSE message = "" /\ planning = <<>> /\ summary = <<>>

C4_Witness ==
    /\ pc = "done"
    /\ status = "FEASIBLE"
    /\ message = "success"
    /\ Len(planning) = W * DAYS
    /\ \E i \in 1..Len(summary) : summary[i].total_h > 0

\* C5: malformed input is rejected before the model is built, with an outcome
\* other than the one of an infeasible model.
C5_MalformedRejected ==
    Malformed =>
        /\ pc \notin {"solving", "solved"}
        /\ status = "NONE"
        /\ message \notin {"error", "success"}

\* C6: in every accepted solution is_off is true exactly on the days without
\* an assigned hour, every worker has two consecutive such days, and the
\* decoded longest off-day streak is at least 2.
C6_TwoDaysOff ==
    Accepted =>
        \A w \in Workers :
            /\ \A d \in Days : is_off[w][d + 1] <=> (Worked(w, d) = {})
            /\ \E d \in 0..(DAYS - 2) : Worked(w, d) = {} /\ Worked(w, d + 1) = {}
            /\ pc = "done" => summary[w + 1].max_off_streak >= 2

C6_Witness ==
    /\ Accepted
    /\ pc = "done"
    /\ \E w \in Workers :
          /\ summary[w + 1].days_worked = DAYS - 2
          /\ summary[w + 1].max_off_streak = 2

\* C7: in every accepted solution a start variable is true exactly at a worked
\* hour that is hour 0 or follows an hour not worked, so the starts of a day
\* count its maximal runs of worked hours, at most Coupures Max + 1.
C7_BlockStarts ==
    Accepted =>
        \A w \in Workers : \A d \in Days :
            LET wk == Worked(w, d)
                runs == Cardinality(Runs(w, d))
            IN  /\ \A h \in Hours :
                      idx(d, h) \in start[w]
                          <=> (h \in wk /\ (h = 0 \/ (h - 1) \notin wk))
                /\ Cardinality(start[w] \cap DaySlots(d)) = runs
                /\ runs <= df_emp[w]["Coupures Max"].v + 1

C7_Witness ==
    /\ Accepted
    /\ \E w \in Workers : \E d \in Days :
          /\ Cardinality(Runs(w, d)) = 3
          /\ Cardinality(start[w] \cap DaySlots(d)) = 3

\* C8: in every accepted solution every maximal run of worked hours is at
\* least 3 hours long and begins no later than hour HOURS_PER_DAY - 3, and a
\* day's worked hours number 0 or between 3 and 10.
C8_BlockLength ==
    Accepted =>
        \A w \in Workers : \A d \in Days :
            /\ \A b \in Runs(w, d) : b[2] - b[1] + 1 >= 3 /\ b[1] <= HOURS_PER_DAY - 3
            /\ \/ Worked(w, d) = {}
               \/ Cardinality(Worked(w, d)) \in 3..10

C8_Witness ==
    /\ Accepted
    /\ \E w \in Workers : \E d \in Days :
          /\ <<HOURS_PER_DAY - 3, HOURS_PER_DAY - 1>> \in Runs(w, d)
          /\ Cardinality(Worked(w, d)) = 3

\* C9: the decoded weekly hours of a worker equal the number of its true
\* assignment variables and never exceed its Heures Max.
C9_WeeklyHours ==
    (Accepted /\ pc = "done") =>
        \A w \in Workers :
            /\ summary[w + 1].total_h = TrueVars(w)
            /\ summary[w + 1].total_h <= df_emp[w]["Heures Max"].v

C9_Witness ==
    /\ Accepted
    /\ pc = "done"
    /\ \E w \in Workers : \E v \in Workers :
          /\ df_emp[w]["Heures Max"].v = 5
          /\ summary[w + 1].total_h = 3
          /\ summary[v + 1].total_h = 6

\* C10: the decoded break count of a worker equals the sum over its worked
\* days of the number of working blocks minus one.
C10_BreakCount ==
    (Accepted /\ pc = "done") =>
        \A w \in Workers : summary[w + 1].coup = Breaks(w, DAYS)
====
